---- MODULE Spec2Model ----
(***************************************************************************)
(* Model of swiss_ai_mcp_commons.http.client.CachedHttpClient: the TTL     *)
(* cache, the retry loop with exponential backoff of get() and post(),     *)
(* and the async context manager that owns the connection.                 *)
(*                                                                         *)
(* asyncio is cooperative: the code between two awaits runs atomically.    *)
(* Each action below is one such stretch of a handler.  The awaits of      *)
(* get()/post() are the network request (pc = "pending") and               *)
(* asyncio.sleep (pc = "sleeping").                                        *)
(*                                                                         *)
(* Spec      one task using a client: cache, retries, scope.               *)
(* SpecLive  Spec for a client with a time to live, where every request    *)
(*           and every asyncio.sleep finishes (weak fairness).             *)
(* SpecConc  two tasks calling get() on one client inside its scope.       *)
(* SpecFn    the functions of swiss_ai_mcp_commons.http.content_negotiation*)
(*           and _get_cache_key, and the methods of                        *)
(*           swiss_ai_mcp_commons.serialization.JsonSerializableMixin,     *)
(*           each called once on arguments drawn in the initial state.     *)
(***************************************************************************)
EXTENDS Integers, Sequences, FiniteSets, TLC

\* ---------------------------------------------------------------- bounds
MaxMaxRetries == 3      \* max_retries is drawn from 0..MaxMaxRetries
MaxTtl == 2             \* cache_ttl_seconds is 0 or MaxTtl
Horizon == 2            \* calls start, and idle time passes, up to this time

\* ------------------------------------------------------- program constants
DefaultTimeoutSeconds == 30

\* ------------------------------------------------------------ input sets
Tasks == {"t1"}
None == "None"
JsonValues == {None, "d1"}
StatusCodes == {404, 500}
Urls == {"/a"}
\* params: None, an empty dict, and one dict in its two insertion orders
\* (Optional[Dict]: `given` is FALSE for None; `items` in insertion order)
Params(given, items) == [given |-> given, items |-> items]

ParamChoices ==
    { Params(FALSE, << >>),
      Params(TRUE, << >>),
      Params(TRUE, << <<1, "x">>, <<2, "y">> >>),
      Params(TRUE, << <<2, "y">>, <<1, "x">> >>) }

VARIABLES
    cfg,        \* base_url, cache_ttl_seconds, max_retries, timeout_seconds
    client,     \* self._client: None, or the state of the AsyncClient it refers to
    inScope,    \* the caller is inside `async with client`
    cache,      \* self._cache: key -> [value, timestamp]
    now,        \* datetime.now(), in seconds
    task,       \* per caller task: the get()/post() call it runs or ran last
    call        \* the call of a pure function under study: arguments and result

vars == <<cfg, client, inScope, cache, now, task, call>>

\* ------------------------------------------------------------ value types
NoError == [kind |-> None, status |-> 0, attempt |-> 0]

Error(kind, status, attempt) == [kind |-> kind, status |-> status, attempt |-> attempt]

\* what one network attempt can end in
Outcome(kind, status, value) == [kind |-> kind, status |-> status, value |-> value]

Outcomes ==
    { Outcome("ok", 200, v) : v \in JsonValues }
    \cup { Outcome("status", s, None) : s \in StatusCodes }
    \cup { Outcome("connect", 0, None),     \* httpx.ConnectError
           Outcome("timeout", 0, None),     \* httpx.TimeoutException
           Outcome("other", 200, None) }    \* any exception get() does not catch,
                                            \* e.g. response.json() on a bad body

NoResult == [kind |-> "none", value |-> None, error |-> NoError]
Returned(v) == [kind |-> "returned", value |-> v, error |-> NoError]
Raised(e) == [kind |-> "raised", value |-> None, error |-> e]

\* cache_key = None (use_cache is false)
NoKey == [hexdigest |-> << >>]

IdleTask ==
    [ pc |-> "idle", method |-> None, url |-> None, cache_key |-> NoKey, use_cache |-> FALSE,
      attempt |-> 0, last_error |-> NoError, wakeAt |-> 0,
      net |-> 0, sleeps |-> << >>, hist |-> << >>, result |-> NoResult,
      scoped |-> FALSE ]

Max(a, b) == IF a >= b THEN a ELSE b

Min(a, b) == IF a <= b THEN a ELSE b

\* no pure function is under study
NoCall == [fn |-> None, done |-> FALSE]

\* ------------------------------------------------------------- cache key
RECURSIVE InsertSorted(_, _)
InsertSorted(item, s) ==
    IF s = << >> THEN << item >>
    ELSE IF item[1] <= Head(s)[1] THEN << item >> \o s
    ELSE << Head(s) >> \o InsertSorted(item, Tail(s))

\* sorted(params.items())
RECURSIVE sorted(_)
sorted(items) ==
    IF items = << >> THEN << >>
    ELSE InsertSorted(Head(items), sorted(Tail(items)))

\* md5(combined.encode()).hexdigest(): a digest of the combined string
md5(combined) == [hexdigest |-> combined]

\* `if params:` is false for None and for the empty dict
Truthy(params) == params.given /\ params.items # << >>

\* get_cache_key without the sorted(): the items in insertion order
get_cache_key_unsorted(url, params) ==
    LET key_parts == IF Truthy(params) THEN << url, params.items >> ELSE << url >>
    IN  md5(key_parts)

get_cache_key(url, params) ==
    LET key_parts == IF Truthy(params) THEN << url, sorted(params.items) >> ELSE << url >>
    IN  md5(key_parts)

\* ------------------------------------------------------------- the cache
is_cache_valid(c, cache_key, t, ttl) ==
    IF cache_key \notin DOMAIN c THEN FALSE
    ELSE (t - c[cache_key].timestamp) < ttl

get_cached(c, cache_key, t, ttl) ==
    IF is_cache_valid(c, cache_key, t, ttl) THEN c[cache_key].value ELSE None

\* set_cache as dict.setdefault would do it: an entry already there stays
set_cache_setdefault(c, cache_key, value, t) ==
    c @@ (cache_key :> [value |-> value, timestamp |-> t])

\* set_cache writing the value and leaving the timestamp of an entry already
\* there: an entry made of two writes
set_cache_keep_timestamp(c, cache_key, value, t) ==
    (cache_key :> [value |-> value,
                   timestamp |-> IF cache_key \in DOMAIN c THEN c[cache_key].timestamp
                                 ELSE t]) @@ c

\* set_cache on a cache that holds one entry: every other entry is evicted
set_cache_single(c, cache_key, value, t) ==
    (cache_key :> [value |-> value, timestamp |-> t])

set_cache(c, cache_key, value, t) ==
    (cache_key :> [value |-> value, timestamp |-> t]) @@ c

EmptyCache == << >>

\* clear_cache as dict.popitem would do it: one entry goes, the others stay
clear_cache_popitem(c) ==
    IF DOMAIN c = {} THEN c
    ELSE LET gone == CHOOSE k \in DOMAIN c : TRUE
         IN  [k \in DOMAIN c \ {gone} |-> c[k]]

\* clear_cache(): self._cache.clear()
clear_cache(c) == EmptyCache

\* len(self._cache), the "cache_size" of to_dict() and the cache_entries of __str__
cache_size(c) == Cardinality(DOMAIN c)

\* --------------------------------------------------------- the retry loop
\* IsServerError taking every error status for a server error
IsErrorStatus(status) == status >= 400

\* `e.response.status_code >= 500`
IsServerError(status) == status >= 500

\* `attempt < self.max_retries - 1`
HasAttemptsLeft(attempt, max_retries) == attempt < max_retries - 1

\* InRange with one iteration too many
InRangeInclusive(attempt, max_retries) == 0 <= attempt /\ attempt <= max_retries

\* `attempt in range(self.max_retries)`
InRange(attempt, max_retries) == 0 <= attempt /\ attempt < max_retries

\* BackoffWait with `*` for `**`
BackoffProduct(attempt) == 2 * attempt

\* `wait_time = 2 ** attempt`
BackoffWait(attempt) == 2 ^ attempt

\* Capture keeping the first error instead of the latest
CaptureFirst(t, e) == IF t.last_error = NoError THEN [t EXCEPT !.last_error = e] ELSE t

\* `last_error = e`
Capture(t, e) == [t EXCEPT !.last_error = e]

\* the call ends: the task is idle again and keeps the call's result
Finish(t, res) == [t EXCEPT !.pc = "idle", !.result = res]

\* `await asyncio.sleep(wait_time)`
Sleep(t, t0) ==
    LET wait_time == BackoffWait(t.attempt)
    IN  [t EXCEPT !.pc = "sleeping", !.wakeAt = t0 + wait_time,
                  !.sleeps = Append(@, wait_time)]

\* Exhausted raising the generic error whatever was captured
ExhaustedGeneric(t) == Finish(t, Raised(Error("AllRetriesFailed", 0, 0)))

\* after the loop: `if last_error: raise last_error`, else the generic
\* RuntimeError("HTTP request failed after all retries")
Exhausted(t) ==
    IF t.last_error # NoError THEN Finish(t, Raised(t.last_error))
    ELSE Finish(t, Raised(Error("AllRetriesFailed", 0, 0)))

\* `await self._client.get(...)` / `.post(...)` of iteration `attempt`: the
\* request is issued; a closed AsyncClient refuses to send with a RuntimeError,
\* which no except clause of get()/post() catches
IssueRequest(t, attempt, cl) ==
    IF cl = "closed"
    THEN Finish([t EXCEPT !.attempt = attempt], Raised(Error("ClientClosed", 0, attempt)))
    ELSE [t EXCEPT !.pc = "pending", !.attempt = attempt, !.net = @ + 1]

\* `for attempt in range(self.max_retries)`: the iteration after `attempt - 1`
\* starts, or the loop is over
\* Iterate without the bound of the loop
IterateUnbounded(t, attempt, cl, max_retries) == IssueRequest(t, attempt, cl)

Iterate(t, attempt, cl, max_retries) ==
    IF InRange(attempt, max_retries) THEN IssueRequest(t, attempt, cl)
    ELSE Exhausted(t)

\* GetFailure whose connection-error clause re-raises instead of retrying
GetFailureConnectRaises(t, out, t0, cl, max_retries) ==
    LET e == Error(out.kind, out.status, t.attempt)
        t1 == Capture(t, e)
    IN  IF out.kind = "status" /\ IsServerError(out.status)
        THEN IF HasAttemptsLeft(t.attempt, max_retries)
             THEN Sleep(t1, t0)
             ELSE Iterate(t1, t.attempt + 1, cl, max_retries)
        ELSE Finish(t1, Raised(e))

\* the except clauses of get() for the attempt that ended in `out`
GetFailure(t, out, t0, cl, max_retries) ==
    LET e == Error(out.kind, out.status, t.attempt)
        t1 == Capture(t, e)
    IN  IF out.kind = "status"
        THEN IF IsServerError(out.status)
             THEN IF HasAttemptsLeft(t.attempt, max_retries)
                  THEN Sleep(t1, t0)
                  ELSE Iterate(t1, t.attempt + 1, cl, max_retries)
             ELSE Finish(t1, Raised(e))
        ELSE IF out.kind \in {"connect", "timeout"}
        THEN IF HasAttemptsLeft(t.attempt, max_retries)
             THEN Sleep(t1, t0)
             ELSE Iterate(t1, t.attempt + 1, cl, max_retries)
        ELSE Finish(t, Raised(e))

\* the except clauses of post()
PostFailure(t, out, t0, cl, max_retries) ==
    LET e == Error(out.kind, out.status, t.attempt)
        t1 == Capture(t, e)
    IN  IF out.kind = "status"
        THEN IF IsServerError(out.status) /\ HasAttemptsLeft(t.attempt, max_retries)
             THEN Sleep(t1, t0)
             ELSE Finish(t1, Raised(e))
        ELSE IF out.kind \in {"connect", "timeout"}
        THEN IF HasAttemptsLeft(t.attempt, max_retries)
             THEN Sleep(t1, t0)
             ELSE Iterate(t1, t.attempt + 1, cl, max_retries)
        ELSE Finish(t, Raised(e))

\* GetAttempt storing the response whatever use_cache says
GetAttemptAlwaysCaching(t, c, out, t0, cl, max_retries) ==
    LET th == [t EXCEPT !.hist = Append(@, out)]
    IN  IF out.kind = "ok"
        THEN [ task |-> Finish(th, Returned(out.value)),
               cache |-> set_cache(c, get_cache_key(th.url, Params(FALSE, << >>)),
                                   out.value, t0) ]
        ELSE [ task |-> GetFailure(th, out, t0, cl, max_retries), cache |-> c ]

\* get(): the attempt's request completed with `out`; runs to the next await
\* or to the end of the call.  Yields the task and the cache afterwards.
GetAttempt(t, c, out, t0, cl, max_retries) ==
    LET th == [t EXCEPT !.hist = Append(@, out)]
    IN  IF out.kind = "ok"
        THEN [ task |-> Finish(th, Returned(out.value)),
               cache |-> IF th.cache_key # NoKey /\ th.use_cache
                         THEN set_cache(c, th.cache_key, out.value, t0)
                         ELSE c ]
        ELSE [ task |-> GetFailure(th, out, t0, cl, max_retries), cache |-> c ]

\* PostAttempt storing the response as get() does
PostAttemptCaching(t, c, out, t0, cl, max_retries) ==
    LET th == [t EXCEPT !.hist = Append(@, out)]
    IN  IF out.kind = "ok"
        THEN [ task |-> Finish(th, Returned(out.value)),
               cache |-> set_cache(c, get_cache_key(th.url, Params(FALSE, << >>)),
                                   out.value, t0) ]
        ELSE [ task |-> PostFailure(th, out, t0, cl, max_retries), cache |-> c ]

\* post(): the same for post(), which has no cache code
PostAttempt(t, c, out, t0, cl, max_retries) ==
    LET th == [t EXCEPT !.hist = Append(@, out)]
    IN  IF out.kind = "ok"
        THEN [ task |-> Finish(th, Returned(out.value)), cache |-> c ]
        ELSE [ task |-> PostFailure(th, out, t0, cl, max_retries), cache |-> c ]

\* get() from its first line to its first await
GetCall(url, params, use_cache, cl, c, t0, conf, scoped) ==
    LET cache_key == IF use_cache THEN get_cache_key(url, params) ELSE NoKey
        t == [IdleTask EXCEPT !.method = "GET", !.url = url, !.cache_key = cache_key,
                              !.use_cache = use_cache, !.scoped = scoped]
        cached == IF cache_key # NoKey /\ use_cache
                  THEN get_cached(c, cache_key, t0, conf.cache_ttl_seconds)
                  ELSE None
    IN  IF cl = None THEN Finish(t, Raised(Error("NotInitialized", 0, 0)))
        ELSE IF cached # None THEN Finish(t, Returned(cached))
        ELSE Iterate(t, 0, cl, conf.max_retries)

\* post() from its first line to its first await
PostCall(url, cl, conf, scoped) ==
    LET t == [IdleTask EXCEPT !.method = "POST", !.url = url, !.scoped = scoped]
    IN  IF cl = None THEN Finish(t, Raised(Error("NotInitialized", 0, 0)))
        ELSE Iterate(t, 0, cl, conf.max_retries)

\* the retry loop run to its end on the attempt outcomes `outs`, from the
\* state in which the first request is in flight; every sleep is slept out
RECURSIVE RunLoop(_, _, _, _, _, _)
RunLoop(t, c, outs, t0, cl, max_retries) ==
    IF t.pc # "pending" \/ outs = << >> THEN [task |-> t, cache |-> c]
    ELSE LET r == IF t.method = "GET"
                  THEN GetAttempt(t, c, Head(outs), t0, cl, max_retries)
                  ELSE PostAttempt(t, c, Head(outs), t0, cl, max_retries)
             woken == IF r.task.pc = "sleeping"
                      THEN Iterate(r.task, r.task.attempt + 1, cl, max_retries)
                      ELSE r.task
         IN  RunLoop(woken, r.cache, Tail(outs), t0, cl, max_retries)

\* ------------------------------------------------ the context manager
\* __aenter__: self._client = httpx.AsyncClient(...)
aenter(cl) == "open"

\* aexit without the aclose()
aexit_leaves_open(cl) == cl

\* __aexit__: `if self._client: await self._client.aclose()`
aexit(cl) == IF cl # None THEN "closed" ELSE cl

\* ------------------------------------------------------------------ Init
Configs ==
    [ base_url : {""},
      cache_ttl_seconds : {0, MaxTtl},
      max_retries : 0..MaxMaxRetries,
      timeout_seconds : {DefaultTimeoutSeconds} ]

Init ==
    /\ cfg \in Configs
    /\ client = None
    /\ inScope = FALSE
    /\ cache = EmptyCache
    /\ now = 0
    /\ task = [p \in Tasks |-> IdleTask]
    /\ call = NoCall

AllIdle == \A p \in Tasks : task[p].pc = "idle"

\* --------------------------------------------------------------- actions
\* __aenter__: `async with client` is entered
AEnter ==
    /\ ~inScope
    /\ AllIdle
    /\ client' = aenter(client)
    /\ inScope' = TRUE
    /\ UNCHANGED <<cfg, cache, now, task, call>>

\* __aexit__: the body of `async with` is left, normally or by an exception
AExit ==
    /\ inScope
    /\ AllIdle
    /\ client' = aexit(client)
    /\ inScope' = FALSE
    /\ UNCHANGED <<cfg, cache, now, task, call>>

Get(p) ==
    /\ task[p].pc = "idle"
    /\ now <= Horizon
    /\ \E url \in Urls, params \in ParamChoices, use_cache \in BOOLEAN :
          task' = [task EXCEPT ![p] =
                      GetCall(url, params, use_cache, client, cache, now, cfg, inScope)]
    /\ UNCHANGED <<cfg, client, inScope, cache, now, call>>

Post(p) ==
    /\ task[p].pc = "idle"
    /\ now <= Horizon
    /\ \E url \in Urls :
          task' = [task EXCEPT ![p] = PostCall(url, client, cfg, inScope)]
    /\ UNCHANGED <<cfg, client, inScope, cache, now, call>>

GetResponse(p) ==
    /\ task[p].pc = "pending"
    /\ task[p].method = "GET"
    /\ \E out \in Outcomes :
          LET r == GetAttempt(task[p], cache, out, now, client, cfg.max_retries)
          IN  /\ task' = [task EXCEPT ![p] = r.task]
              /\ cache' = r.cache
    /\ UNCHANGED <<cfg, client, inScope, now, call>>

PostResponse(p) ==
    /\ task[p].pc = "pending"
    /\ task[p].method = "POST"
    /\ \E out \in Outcomes :
          LET r == PostAttempt(task[p], cache, out, now, client, cfg.max_retries)
          IN  /\ task' = [task EXCEPT ![p] = r.task]
              /\ cache' = r.cache
    /\ UNCHANGED <<cfg, client, inScope, now, call>>

\* asyncio.sleep returns once wait_time seconds have passed; the loop goes on
SleepDone(p) ==
    /\ task[p].pc = "sleeping"
    /\ now' = Max(now, task[p].wakeAt)
    /\ task' = [task EXCEPT ![p] =
                  Iterate(task[p], task[p].attempt + 1, client, cfg.max_retries)]
    /\ UNCHANGED <<cfg, client, inScope, cache, call>>

\* clear_cache() that also sets the time to live back to 0
ClearCacheResetting ==
    /\ cache' = clear_cache(cache)
    /\ cfg' = [cfg EXCEPT !.cache_ttl_seconds = 0]
    /\ UNCHANGED <<client, inScope, now, task, call>>

\* clear_cache()
ClearCache ==
    /\ cache' = clear_cache(cache)
    /\ UNCHANGED <<cfg, client, inScope, now, task, call>>

\* a second passes
Tick ==
    /\ now < Horizon
    /\ now' = now + 1
    /\ UNCHANGED <<cfg, client, inScope, cache, task, call>>

Next ==
    \/ AEnter
    \/ AExit
    \/ \E p \in Tasks : Get(p)
    \/ \E p \in Tasks : Post(p)
    \/ \E p \in Tasks : GetResponse(p)
    \/ \E p \in Tasks : PostResponse(p)
    \/ \E p \in Tasks : SleepDone(p)
    \/ ClearCache
    \/ Tick

Spec == Init /\ [][Next]_vars

\* the same client with a time to live, where every request that was issued
\* is answered or fails and every asyncio.sleep returns
InitLive ==
    /\ Init
    /\ cfg.cache_ttl_seconds = MaxTtl

Fairness ==
    \A p \in Tasks :
       /\ WF_vars(GetResponse(p))
       /\ WF_vars(PostResponse(p))
       /\ WF_vars(SleepDone(p))

SpecLive == InitLive /\ [][Next]_vars /\ Fairness

TypeOK ==
    /\ cfg \in Configs
    /\ client \in {None, "open", "closed"}
    /\ inScope \in BOOLEAN
    /\ now \in 0..(Horizon + 2 ^ MaxMaxRetries)
    /\ \A p \in Tasks : task[p].pc \in {"idle", "pending", "sleeping"}

\* ----------------------------------------- two tasks sharing one client
\* Two tasks call get() on one client inside its scope; their calls interleave
\* at the awaits.  Responses carry one of two bodies.
ConcTasks == {"t1", "t2"}

ConcValues == {"d1", "d2"}

ConcOutcomes ==
    { Outcome("ok", 200, v) : v \in ConcValues } \cup { Outcome("status", 500, None) }

InitConc ==
    /\ cfg \in { c \in Configs : c.max_retries = 2 /\ c.cache_ttl_seconds = MaxTtl }
    /\ client = None
    /\ inScope = FALSE
    /\ cache = EmptyCache
    /\ now = 0
    /\ task = [p \in ConcTasks |-> IdleTask]
    /\ call = NoCall

GetResponseConc(p) ==
    /\ task[p].pc = "pending"
    /\ task[p].method = "GET"
    /\ \E out \in ConcOutcomes :
          LET r == GetAttempt(task[p], cache, out, now, client, cfg.max_retries)
          IN  /\ task' = [task EXCEPT ![p] = r.task]
              /\ cache' = r.cache
    /\ UNCHANGED <<cfg, client, inScope, now, call>>

NextConc ==
    \/ AEnter
    \/ \E p \in ConcTasks : Get(p)
    \/ \E p \in ConcTasks : GetResponseConc(p)
    \/ \E p \in ConcTasks : SleepDone(p)
    \/ Tick

SpecConc == InitConc /\ [][NextConc]_vars

\* ======================================================================
\* swiss_ai_mcp_commons.http.content_negotiation
\* ======================================================================
\* A string is the sequence of its lexical pieces: a name or a number is one
\* piece; ",", ";", "=", "/" and the blank " " are pieces of their own.

\* `sep in s`, and the place of the first sep in s (0: none)
Contains(s, sep) == \E i \in 1..Len(s) : s[i] = sep

IndexOf(s, sep) ==
    LET at == { i \in 1..Len(s) : s[i] = sep }
    IN  IF at = {} THEN 0 ELSE CHOOSE i \in at : \A j \in at : i <= j

\* s.split(sep, 1)
split_once(s, sep) ==
    LET i == IndexOf(s, sep)
    IN  IF i = 0 THEN << s >> ELSE << SubSeq(s, 1, i - 1), SubSeq(s, i + 1, Len(s)) >>

\* s.split(sep)
RECURSIVE split(_, _)
split(s, sep) ==
    LET i == IndexOf(s, sep)
    IN  IF i = 0 THEN << s >>
        ELSE << SubSeq(s, 1, i - 1) >> \o split(SubSeq(s, i + 1, Len(s)), sep)

\* s.strip()
RECURSIVE lstrip(_)
lstrip(s) == IF s # << >> /\ Head(s) = " " THEN lstrip(Tail(s)) ELSE s

RECURSIVE rstrip(_)
rstrip(s) ==
    IF s # << >> /\ s[Len(s)] = " " THEN rstrip(SubSeq(s, 1, Len(s) - 1)) ELSE s

strip(s) == rstrip(lstrip(s))

\* s.startswith(prefix)
startswith(s, prefix) ==
    Len(prefix) <= Len(s) /\ SubSeq(s, 1, Len(prefix)) = prefix

\* [p.strip() for p in parts]
RECURSIVE StripEach(_)
StripEach(parts) ==
    IF parts = << >> THEN << >>
    ELSE << strip(Head(parts)) >> \o StripEach(Tail(parts))

\* qualities are counted in tenths: One is 1.0
One == 10

\* float(value): the numbers float() reads, in tenths; any other text is a
\* ValueError
FloatValue ==
    ("0" :> 0) @@ ("0.5" :> 5) @@ ("0.8" :> 8) @@ ("1" :> 10)
    @@ ("1.5" :> 15) @@ ("-0.5" :> (0 - 5))

IsFloat(value) == Len(value) = 1 /\ value[1] \in DOMAIN FloatValue

\* parse_quality without the clamp
parse_quality_unclamped(value) ==
    IF IsFloat(value) THEN FloatValue[value[1]] ELSE One

\* try: quality = float(value); quality = max(0.0, min(1.0, quality))
\* except ValueError: quality = 1.0
parse_quality(value) ==
    IF IsFloat(value) THEN Max(0, Min(One, FloatValue[value[1]])) ELSE One

Star == << "*" >>

MediaType(type, subtype, quality, params) ==
    [type |-> type, subtype |-> subtype, quality |-> quality, params |-> params]

EncodingPreference(encoding, quality) == [encoding |-> encoding, quality |-> quality]

\* MediaType.full_type
full_type(mt) == mt.type \o << "/" >> \o mt.subtype

\* MediaType.matches
media_type_matches(mt, content_type) ==
    IF mt.type = Star /\ mt.subtype = Star THEN TRUE
    ELSE IF mt.subtype = Star THEN startswith(content_type, mt.type \o << "/" >>)
    ELSE content_type = full_type(mt)

\* EncodingPreference.matches
encoding_matches(pref, encoding) == pref.encoding = Star \/ pref.encoding = encoding

\* the loop of parse_media_type over parts[1:]; acc is (quality, params)
RECURSIVE MediaParams(_, _)
MediaParams(parts, acc) ==
    IF parts = << >> THEN acc
    ELSE LET part == Head(parts)
             kv == split_once(part, "=")
             key == strip(kv[1])
             value == strip(kv[2])
             next == IF ~Contains(part, "=") THEN acc
                     ELSE IF key = << "q" >>
                          THEN [acc EXCEPT !.quality = parse_quality(value)]
                          ELSE [acc EXCEPT !.params = (key :> value) @@ @]
         IN  MediaParams(Tail(parts), next)

\* parse_media_type; params is the dict, empty where the code gives None
parse_media_type(media_type_str) ==
    LET parts == StripEach(split(media_type_str, ";"))
        main_type == parts[1]
        type_parts == split_once(main_type, "/")
        media_type == IF Contains(main_type, "/") THEN strip(type_parts[1]) ELSE main_type
        media_subtype == IF Contains(main_type, "/") THEN strip(type_parts[2]) ELSE Star
        qp == MediaParams(Tail(parts), [quality |-> One, params |-> << >>])
    IN  MediaType(media_type, media_subtype, qp.quality, qp.params)

\* the loop of parse_encoding_preference over parts[1:]
RECURSIVE EncodingQuality(_, _)
EncodingQuality(parts, quality) ==
    IF parts = << >> THEN quality
    ELSE LET part == Head(parts)
             kv == split_once(part, "=")
             next == IF Contains(part, "=") /\ strip(kv[1]) = << "q" >>
                     THEN parse_quality(strip(kv[2]))
                     ELSE quality
         IN  EncodingQuality(Tail(parts), next)

parse_encoding_preference(encoding_str) ==
    LET parts == StripEach(split(encoding_str, ";"))
    IN  EncodingPreference(parts[1], EncodingQuality(Tail(parts), One))

\* tuple comparison a < b, left to right
RECURSIVE TupleLess(_, _)
TupleLess(a, b) ==
    IF a = << >> \/ b = << >> THEN a = << >> /\ b # << >>
    ELSE IF Head(a) # Head(b) THEN Head(a) < Head(b)
    ELSE TupleLess(Tail(a), Tail(b))

\* True and False as sort keys
Bool(b) == IF b THEN 1 ELSE 0

\* media_key ranking by quality alone
media_key_quality_only(mt) == << mt.quality >>

\* key=lambda mt: (mt.quality, mt.type != "*", mt.subtype != "*")
media_key(mt) == << mt.quality, Bool(mt.type # Star), Bool(mt.subtype # Star) >>

\* key=lambda e: e.quality
encoding_key(e) == << e.quality >>

\* InsertDescending putting x before the elements of equal key
RECURSIVE InsertBeforeEqual(_, _)
InsertBeforeEqual(x, s) ==
    IF s = << >> THEN << x >>
    ELSE IF ~TupleLess(x.key, Head(s).key) THEN << x >> \o s
    ELSE << Head(s) >> \o InsertBeforeEqual(x, Tail(s))

\* x goes behind every element whose key is not smaller than its own
RECURSIVE InsertDescending(_, _)
InsertDescending(x, s) ==
    IF s = << >> THEN << x >>
    ELSE IF TupleLess(Head(s).key, x.key) THEN << x >> \o s
    ELSE << Head(s) >> \o InsertDescending(x, Tail(s))

RECURSIVE SortInto(_, _)
SortInto(acc, rest) ==
    IF rest = << >> THEN acc
    ELSE SortInto(InsertDescending(Head(rest), acc), Tail(rest))

RECURSIVE Items(_)
Items(keyed) ==
    IF keyed = << >> THEN << >> ELSE << Head(keyed).item >> \o Items(Tail(keyed))

\* sorted(items, key=..., reverse=True) on items paired with their keys: the
\* sort is stable, and reverse=True keeps the order of equal keys
sorted_reverse(keyed) == Items(SortInto(<< >>, keyed))

\* [parse_media_type(mt.strip()) for mt in segments], each with its sort key
RECURSIVE MediaTypes(_)
MediaTypes(segments) ==
    IF segments = << >> THEN << >>
    ELSE LET mt == parse_media_type(strip(Head(segments)))
         IN  << [key |-> media_key(mt), item |-> mt] >> \o MediaTypes(Tail(segments))

parse_accept_header(accept_header) ==
    IF accept_header = << >> THEN << >>
    ELSE sorted_reverse(MediaTypes(split(accept_header, ",")))

\* [parse_encoding_preference(e.strip()) for e in segments], each with its key
RECURSIVE Encodings(_)
Encodings(segments) ==
    IF segments = << >> THEN << >>
    ELSE LET e == parse_encoding_preference(strip(Head(segments)))
         IN  << [key |-> encoding_key(e), item |-> e] >> \o Encodings(Tail(segments))

parse_accept_encoding_header(accept_encoding) ==
    IF accept_encoding = << >> THEN << >>
    ELSE sorted_reverse(Encodings(split(accept_encoding, ",")))

\* Optional[str]: Absent is None
Absent == << >>
Some(x) == << x >>

\* the smallest number of a non-empty set of numbers
Least(S) == CHOOSE i \in S : \A j \in S : i <= j

\* select_content_type from the second line on, reading `accepted` in an order
\* turned round
select_content_type_last(accept_header, available_types) ==
    LET accepted == parse_accept_header(accept_header)
        hit(i) == { j \in 1..Len(available_types) :
                       media_type_matches(accepted[i], available_types[j]) }
        hits == { i \in 1..Len(accepted) : hit(i) # {} }
        last == CHOOSE i \in hits : \A j \in hits : j <= i
    IN  IF accept_header = << >>
        THEN IF available_types # << >> THEN Some(available_types[1]) ELSE Absent
        ELSE IF hits = {} THEN Absent
        ELSE Some(available_types[Least(hit(last))])

\* select_content_type: the first (media_type, available) of the nested loops
\* that matches
select_content_type(accept_header, available_types) ==
    LET accepted == parse_accept_header(accept_header)
        hit(i) == { j \in 1..Len(available_types) :
                       media_type_matches(accepted[i], available_types[j]) }
        hits == { i \in 1..Len(accepted) : hit(i) # {} }
    IN  IF accept_header = << >>
        THEN IF available_types # << >> THEN Some(available_types[1]) ELSE Absent
        ELSE IF hits = {} THEN Absent
        ELSE Some(available_types[Least(hit(Least(hits)))])

Identity == << "identity" >>

\* select_encoding without the fallback to identity
select_encoding_no_fallback(accept_encoding, available_encodings) ==
    LET preferences == parse_accept_encoding_header(accept_encoding)
        hit(i) == { j \in 1..Len(available_encodings) :
                       encoding_matches(preferences[i], available_encodings[j]) }
        hits == { i \in 1..Len(preferences) : hit(i) # {} }
    IN  IF accept_encoding = << >> THEN Some(Identity)
        ELSE IF hits # {} THEN Some(available_encodings[Least(hit(Least(hits)))])
        ELSE Absent

select_encoding(accept_encoding, available_encodings) ==
    LET preferences == parse_accept_encoding_header(accept_encoding)
        hit(i) == { j \in 1..Len(available_encodings) :
                       encoding_matches(preferences[i], available_encodings[j]) }
        hits == { i \in 1..Len(preferences) : hit(i) # {} }
    IN  IF accept_encoding = << >> THEN Some(Identity)
        ELSE IF hits # {} THEN Some(available_encodings[Least(hit(Least(hits)))])
        ELSE IF \E j \in 1..Len(available_encodings) : available_encodings[j] = Identity
             THEN Some(Identity)
             ELSE Absent

\* ["gzip", "deflate", "br"]
CompressionEncodings == { << "gzip" >>, << "deflate" >>, << "br" >> }

\* should_compress taking a quality of 0 as well
should_compress_any_quality(accept_encoding, min_size_bytes, content_size) ==
    LET encodings == parse_accept_encoding_header(accept_encoding)
    IN  IF content_size < min_size_bytes THEN FALSE
        ELSE IF accept_encoding = << >> THEN FALSE
        ELSE \E i \in 1..Len(encodings) :
                encodings[i].encoding \in CompressionEncodings /\ encodings[i].quality >= 0

should_compress(accept_encoding, min_size_bytes, content_size) ==
    LET encodings == parse_accept_encoding_header(accept_encoding)
    IN  IF content_size < min_size_bytes THEN FALSE
        ELSE IF accept_encoding = << >> THEN FALSE
        ELSE \E i \in 1..Len(encodings) :
                encodings[i].encoding \in CompressionEncodings /\ encodings[i].quality > 0

\* ======================================================================
\* swiss_ai_mcp_commons.serialization
\* ======================================================================
\* A str is the sequence of its characters, bytes are a sequence of numbers.
\* An object is what its to_dict() gives, or lacks to_dict(); a dict is the
\* sequence of its (key, value) pairs, keys and values being strs.

\* the default of min_compress_size
DefaultMinCompressSize == 1024

\* the code points of the ASCII characters in use
Ord ==
    ("{" :> 123) @@ ("}" :> 125) @@ ("\"" :> 34) @@ (":" :> 58) @@ ("," :> 44)
    @@ (" " :> 32) @@ ("n" :> 110) @@ ("a" :> 97) @@ ("\\" :> 92) @@ ("u" :> 117)
    @@ ("0" :> 48) @@ ("e" :> 101) @@ ("9" :> 57)

\* the character that is not ASCII: U+00E9
EAcute == "U+00E9"

\* what a call gives: a value, or the exception it raised
Value(v) == [raised |-> FALSE, error |-> None, value |-> v]
Failure(error) == [raised |-> TRUE, error |-> error]

\* to_dict giving an empty dict where the class has none
to_dict_default(obj) ==
    IF obj.has_to_dict THEN Value(obj.dict) ELSE Value(<< >>)

\* self.to_dict(): the class's own, or the mixin's, which raises
to_dict(obj) ==
    IF obj.has_to_dict THEN Value(obj.dict) ELSE Failure("NotImplementedError")

\* json.dumps of one character of a string
Escape(ch, ensure_ascii) ==
    IF ch = EAcute /\ ensure_ascii THEN << "\\", "u", "0", "0", "e", "9" >> ELSE << ch >>

RECURSIVE EscapeAll(_, _)
EscapeAll(string, ensure_ascii) ==
    IF string = << >> THEN << >>
    ELSE Escape(Head(string), ensure_ascii) \o EscapeAll(Tail(string), ensure_ascii)

Quoted(string, ensure_ascii) == << "\"" >> \o EscapeAll(string, ensure_ascii) \o << "\"" >>

RECURSIVE Members(_, _)
Members(pairs, ensure_ascii) ==
    IF pairs = << >> THEN << >>
    ELSE Quoted(Head(pairs)[1], ensure_ascii) \o << ":", " " >>
         \o Quoted(Head(pairs)[2], ensure_ascii)
         \o (IF Len(pairs) > 1 THEN << ",", " " >> ELSE << >>)
         \o Members(Tail(pairs), ensure_ascii)

\* json.dumps(d, **kwargs); of the keyword arguments, ensure_ascii
json_dumps(d, kwargs) == << "{" >> \o Members(d, kwargs.ensure_ascii) \o << "}" >>

\* one character in a charset; no bytes where the charset has none for it
EncodeChar(ch, charset) ==
    IF ch \in DOMAIN Ord THEN << Ord[ch] >>
    ELSE IF charset = "utf-8" THEN << 195, 169 >>
    ELSE IF charset = "iso-8859-1" THEN << 233 >>
    ELSE << >>

RECURSIVE EncodeAll(_, _)
EncodeAll(string, charset) ==
    IF string = << >> THEN << >>
    ELSE EncodeChar(Head(string), charset) \o EncodeAll(Tail(string), charset)

\* encode taking utf-8 whatever the charset
encode_utf8(string, charset) == Value(EncodeAll(string, "utf-8"))

\* string.encode(charset): UnicodeEncodeError on a character the charset lacks
encode(string, charset) ==
    IF \E i \in 1..Len(string) : EncodeChar(string[i], charset) = << >>
    THEN Failure("UnicodeEncodeError")
    ELSE Value(EncodeAll(string, charset))

\* the length of the run of equal bytes at the head of a non-empty sequence
LeadingRun(bytes) ==
    Cardinality({ i \in 1..Len(bytes) : \A j \in 1..i : bytes[j] = bytes[1] })

RECURSIVE RunLengths(_)
RunLengths(bytes) ==
    IF bytes = << >> THEN << >>
    ELSE LET n == LeadingRun(bytes)
         IN  << n, bytes[1] >> \o RunLengths(SubSeq(bytes, n + 1, Len(bytes)))

\* the two magic bytes a gzip member starts with
GzipMagic == << 31, 139 >>

\* gzip.compress(data): a header, the data in a lossless coding (here the
\* lengths of its runs), and the length of the data as trailer
gzip_compress(data) == GzipMagic \o RunLengths(data) \o << Len(data) >>

\* the base64 alphabet
Base64Alphabet ==
    << "A", "B", "C", "D", "E", "F", "G", "H", "I", "J", "K", "L", "M", "N", "O", "P",
       "Q", "R", "S", "T", "U", "V", "W", "X", "Y", "Z", "a", "b", "c", "d", "e", "f",
       "g", "h", "i", "j", "k", "l", "m", "n", "o", "p", "q", "r", "s", "t", "u", "v",
       "w", "x", "y", "z", "0", "1", "2", "3", "4", "5", "6", "7", "8", "9", "+", "/" >>

Base64Char(sextet) == Base64Alphabet[sextet + 1]

\* base64.b64encode(data).decode('ascii')
RECURSIVE b64encode(_)
b64encode(data) ==
    IF data = << >> THEN << >>
    ELSE LET b1 == data[1]
             b2 == IF Len(data) >= 2 THEN data[2] ELSE 0
             b3 == IF Len(data) >= 3 THEN data[3] ELSE 0
             n == b1 * 65536 + b2 * 256 + b3
             c1 == Base64Char(n \div 262144)
             c2 == Base64Char((n \div 4096) % 64)
             c3 == IF Len(data) >= 2 THEN Base64Char((n \div 64) % 64) ELSE "="
             c4 == IF Len(data) >= 3 THEN Base64Char(n % 64) ELSE "="
         IN  << c1, c2, c3, c4 >>
             \o (IF Len(data) > 3 THEN b64encode(SubSeq(data, 4, Len(data))) ELSE << >>)

\* to_json(compress, **kwargs)
to_json(obj, compress, kwargs) ==
    LET d == to_dict(obj)
        json_str == json_dumps(d.value, kwargs)
    IN  IF d.raised THEN d
        ELSE IF compress
        THEN Value(b64encode(gzip_compress(EncodeAll(json_str, "utf-8"))))
        ELSE Value(json_str)

\* to_json_gzipped(as_base64, **kwargs)
to_json_gzipped(obj, as_base64, kwargs) ==
    LET d == to_dict(obj)
        json_str == json_dumps(d.value, kwargs)
        compressed == gzip_compress(EncodeAll(json_str, "utf-8"))
    IN  IF d.raised THEN d
        ELSE IF as_base64 THEN Value(b64encode(compressed))
        ELSE Value(compressed)

Digits == << "0", "1", "2", "3", "4", "5", "6", "7", "8", "9" >>

\* str(n) of a number n >= 0
RECURSIVE str(_)
str(n) ==
    IF n < 10 THEN << Digits[n + 1] >>
    ELSE str(n \div 10) \o << Digits[(n % 10) + 1] >>

\* build_content_type_header(content_type, charset)
build_content_type_header(content_type, charset) ==
    IF charset # ""
    THEN content_type \o << ";", " ", "charset", "=", charset >>
    ELSE content_type

\* ContentType.JSON.value
ApplicationJson == << "application", "/", "json" >>

\* Encoding.GZIP.value
Gzip == << "gzip" >>

\* accept_encoding is neither None nor ""
Present(accept_encoding) == accept_encoding # Absent /\ accept_encoding[1] # << >>

\* compresses_with_gzip without the should_compress test
compresses_by_header(accept_encoding, min_compress_size, content_size) ==
    /\ Present(accept_encoding)
    /\ select_encoding(accept_encoding[1], << Gzip, Identity >>) = Some(Gzip)

\* `if accept_encoding and should_compress(...)`, `if encoding == "gzip"`
compresses_with_gzip(accept_encoding, min_compress_size, content_size) ==
    /\ Present(accept_encoding)
    /\ should_compress(accept_encoding[1], min_compress_size, content_size)
    /\ select_encoding(accept_encoding[1], << Gzip, Identity >>) = Some(Gzip)

\* content_size counted in characters
content_size_characters(json_str, json_bytes) == Len(json_str)

\* content_size = len(json_bytes)
content_size_of(json_str, json_bytes) == Len(json_bytes)

\* the (content, headers) serialize_with_negotiation returns; is_bytes tells
\* bytes from str
Negotiated(is_bytes, content, headers) ==
    [is_bytes |-> is_bytes, content |-> content, headers |-> headers]

\* serialize_with_negotiation(accept_encoding, min_compress_size, charset,
\* **kwargs)
serialize_with_negotiation(obj, accept_encoding, min_compress_size, charset, kwargs) ==
    LET d == to_dict(obj)
        json_str == json_dumps(d.value, kwargs)
        json_bytes == encode(json_str, charset)
        content_size == content_size_of(json_str, json_bytes.value)
        headers == ("Content-Type" :> build_content_type_header(ApplicationJson, charset))
        compressed == gzip_compress(json_bytes.value)
    IN  IF d.raised THEN d
        ELSE IF json_bytes.raised THEN json_bytes
        ELSE IF compresses_with_gzip(accept_encoding, min_compress_size, content_size)
        THEN Value(Negotiated(TRUE, compressed,
                              ("Content-Length" :> str(Len(compressed)))
                              @@ ("Content-Encoding" :> Gzip) @@ headers))
        ELSE Value(Negotiated(FALSE, json_str,
                              ("Content-Length" :> str(content_size)) @@ headers))

\* ------------------------------------------------- inputs of the functions
MaxSegments == 3        \* a header has up to MaxSegments comma-separated segments

\* one segment of a header as a client writes it: the main part, the text of
\* its q parameter ("" for none), a blank after ";" or not, and a parameter
\* other than q or not
Shape(main, q, sp, extra) == [main |-> main, q |-> q, sp |-> sp, extra |-> extra]

Render(sh) ==
    sh.main
    \o (IF sh.extra THEN << ";", "level", "=", "1" >> ELSE << >>)
    \o (IF sh.q = "" THEN << >>
        ELSE << ";" >> \o (IF sh.sp THEN << " " >> ELSE << >>) \o << "q", "=", sh.q >>)

\* the segments joined by ", "
RECURSIVE Join(_)
Join(shapes) ==
    IF shapes = << >> THEN << >>
    ELSE IF Len(shapes) = 1 THEN Render(shapes[1])
    ELSE Render(Head(shapes)) \o << ",", " " >> \o Join(Tail(shapes))

QTexts == {"", "0", "0.5", "0.8", "1", "1.5", "-0.5", "abc"}

TextHtml == << "text", "/", "html" >>
TextPlain == << "text", "/", "plain" >>
TextAny == << "text", "/", "*" >>
AnyAny == << "*", "/", "*" >>

MediaMains == { TextHtml, TextAny, AnyAny, ApplicationJson, << "text" >> }

EncodingMains == { << "gzip" >>, << "deflate" >>, << "br" >>, Identity, Star }

MediaShapes == [main : MediaMains, q : QTexts, sp : BOOLEAN, extra : BOOLEAN]

EncodingShapes == [main : EncodingMains, q : QTexts, sp : BOOLEAN, extra : BOOLEAN]

\* the segments Accept headers are made of
AcceptShapes ==
    { Shape(TextHtml, "", TRUE, FALSE), Shape(ApplicationJson, "", TRUE, FALSE),
      Shape(TextAny, "", TRUE, FALSE), Shape(AnyAny, "", TRUE, FALSE),
      Shape(TextHtml, "0.8", TRUE, FALSE), Shape(AnyAny, "0.8", TRUE, FALSE),
      Shape(TextAny, "0.8", FALSE, FALSE), Shape(ApplicationJson, "0.5", TRUE, FALSE) }

\* the segments Accept-Encoding headers are made of
AcceptEncodingShapes ==
    { Shape(<< "gzip" >>, "", TRUE, FALSE), Shape(<< "deflate" >>, "", TRUE, FALSE),
      Shape(<< "br" >>, "", TRUE, FALSE), Shape(Star, "", TRUE, FALSE),
      Shape(<< "gzip" >>, "0.8", TRUE, FALSE), Shape(<< "br" >>, "0.5", TRUE, FALSE),
      Shape(<< "gzip" >>, "0", FALSE, FALSE), Shape(Identity, "0.5", TRUE, FALSE) }

SeqsUpTo(S, n) == UNION { [1..k -> S] : k \in 0..n }

AcceptHeaders == SeqsUpTo(AcceptShapes, MaxSegments)

AcceptEncodingHeaders == SeqsUpTo(AcceptEncodingShapes, MaxSegments)

\* lists without repetition of up to two elements of S
ListsOf(S) ==
    { << >> } \cup { << a >> : a \in S }
    \cup { ab \in S \X S : ab[1] # ab[2] }

AvailableTypeLists == ListsOf({ TextHtml, TextPlain, ApplicationJson })

AvailableEncodingLists == ListsOf({ << "gzip" >>, << "deflate" >>, Identity })

\* content_size, against min_size_bytes = 1
ContentSizes == 0..2

KeyUrls == {"/a", "/b"}

KeyParamChoices ==
    ParamChoices
    \cup { Params(TRUE, << <<1, "x">> >>),
           Params(TRUE, << <<1, "z">>, <<2, "y">> >>),
           Params(TRUE, << <<3, "w">>, <<1, "x">>, <<2, "y">> >>),
           Params(TRUE, << <<2, "y">>, <<3, "w">>, <<1, "x">> >>) }

\* a negotiated header has up to MaxEncodingSegments segments
MaxEncodingSegments == 2

NegotiatedHeaders == SeqsUpTo(AcceptEncodingShapes, MaxEncodingSegments)

\* a class without to_dict, and instances whose to_dict gives {"n": value}
NoToDict == [has_to_dict |-> FALSE, dict |-> << >>]
WithToDict(value) == [has_to_dict |-> TRUE, dict |-> << << << "n" >>, value >> >>]
Objects ==
    { NoToDict, WithToDict(<< >>), WithToDict(<< "a" >>),
      WithToDict(<< "a", "a", "a", "a" >>), WithToDict(<< EAcute >>) }

MinCompressSizes == { 10, DefaultMinCompressSize }
Charsets == { "utf-8", "iso-8859-1", "ascii" }
Kwargs == [ensure_ascii : BOOLEAN]

ToCall(fn, args) == [fn |-> fn, done |-> FALSE, args |-> args]

Done(c, result) == [fn |-> c.fn, done |-> TRUE, args |-> c.args, result |-> result]

\* the calls under study, each function with its arguments
FnCall(c) ==
    \/ \E u \in KeyUrls, p \in KeyParamChoices :
          c = ToCall("get_cache_key", [url |-> u, params |-> p])
    \/ \E sh \in MediaShapes :
          c = ToCall("parse_media_type", [shape |-> sh, text |-> Render(sh)])
    \/ \E sh \in EncodingShapes :
          c = ToCall("parse_encoding_preference", [shape |-> sh, text |-> Render(sh)])
    \/ \E h \in AcceptHeaders :
          c = ToCall("parse_accept_header", [shapes |-> h, header |-> Join(h)])
    \/ \E h \in AcceptEncodingHeaders :
          c = ToCall("parse_accept_encoding_header", [shapes |-> h, header |-> Join(h)])
    \/ \E h \in AcceptHeaders, a \in AvailableTypeLists :
          c = ToCall("select_content_type",
                     [shapes |-> h, header |-> Join(h), available |-> a])
    \/ \E h \in AcceptEncodingHeaders, a \in AvailableEncodingLists :
          c = ToCall("select_encoding",
                     [shapes |-> h, header |-> Join(h), available |-> a])
    \/ \E h \in AcceptEncodingHeaders, n \in ContentSizes :
          c = ToCall("should_compress",
                     [shapes |-> h, header |-> Join(h), min_size_bytes |-> 1,
                      content_size |-> n])
    \/ \E o \in Objects, h \in NegotiatedHeaders, given \in BOOLEAN,
          m \in MinCompressSizes, cs \in Charsets, kw \in Kwargs :
          /\ ~given => h = << >>
          /\ c = ToCall("serialize_with_negotiation",
                        [obj |-> o, shapes |-> h,
                         accept_encoding |-> IF given THEN Some(Join(h)) ELSE Absent,
                         min_compress_size |-> m, charset |-> cs, kwargs |-> kw])
    \/ \E o \in Objects, b \in BOOLEAN, kw \in Kwargs :
          c = ToCall("to_json", [obj |-> o, compress |-> b, kwargs |-> kw])
    \/ \E o \in Objects, b \in BOOLEAN, kw \in Kwargs :
          c = ToCall("to_json_gzipped", [obj |-> o, as_base64 |-> b, kwargs |-> kw])

\* a client is constructed and left alone; one function is called once
InitFn ==
    /\ cfg \in { c \in Configs : c.max_retries = 0 /\ c.cache_ttl_seconds = 0 }
    /\ client = None
    /\ inScope = FALSE
    /\ cache = EmptyCache
    /\ now = 0
    /\ task = [p \in Tasks |-> IdleTask]
    /\ FnCall(call)

Calls(fn) == call.fn = fn /\ ~call.done

GetCacheKey ==
    /\ Calls("get_cache_key")
    /\ call' = Done(call, get_cache_key(call.args.url, call.args.params))
    /\ UNCHANGED <<cfg, client, inScope, cache, now, task>>

ParseMediaType ==
    /\ Calls("parse_media_type")
    /\ call' = Done(call, parse_media_type(call.args.text))
    /\ UNCHANGED <<cfg, client, inScope, cache, now, task>>

ParseEncodingPreference ==
    /\ Calls("parse_encoding_preference")
    /\ call' = Done(call, parse_encoding_preference(call.args.text))
    /\ UNCHANGED <<cfg, client, inScope, cache, now, task>>

ParseAcceptHeader ==
    /\ Calls("parse_accept_header")
    /\ call' = Done(call, parse_accept_header(call.args.header))
    /\ UNCHANGED <<cfg, client, inScope, cache, now, task>>

ParseAcceptEncodingHeader ==
    /\ Calls("parse_accept_encoding_header")
    /\ call' = Done(call, parse_accept_encoding_header(call.args.header))
    /\ UNCHANGED <<cfg, client, inScope, cache, now, task>>

SelectContentType ==
    /\ Calls("select_content_type")
    /\ call' = Done(call, select_content_type(call.args.header, call.args.available))
    /\ UNCHANGED <<cfg, client, inScope, cache, now, task>>

SelectEncoding ==
    /\ Calls("select_encoding")
    /\ call' = Done(call, select_encoding(call.args.header, call.args.available))
    /\ UNCHANGED <<cfg, client, inScope, cache, now, task>>

ShouldCompress ==
    /\ Calls("should_compress")
    /\ call' = Done(call, should_compress(call.args.header, call.args.min_size_bytes,
                                          call.args.content_size))
    /\ UNCHANGED <<cfg, client, inScope, cache, now, task>>

SerializeWithNegotiation ==
    /\ Calls("serialize_with_negotiation")
    /\ call' = Done(call, serialize_with_negotiation(
                              call.args.obj, call.args.accept_encoding,
                              call.args.min_compress_size, call.args.charset,
                              call.args.kwargs))
    /\ UNCHANGED <<cfg, client, inScope, cache, now, task>>

ToJson ==
    /\ Calls("to_json")
    /\ call' = Done(call, to_json(call.args.obj, call.args.compress, call.args.kwargs))
    /\ UNCHANGED <<cfg, client, inScope, cache, now, task>>

ToJsonGzipped ==
    /\ Calls("to_json_gzipped")
    /\ call' = Done(call, to_json_gzipped(call.args.obj, call.args.as_base64,
                                          call.args.kwargs))
    /\ UNCHANGED <<cfg, client, inScope, cache, now, task>>

NextFn ==
    \/ GetCacheKey
    \/ ParseMediaType
    \/ ParseEncodingPreference
    \/ ParseAcceptHeader
    \/ ParseAcceptEncodingHeader
    \/ SelectContentType
    \/ SelectEncoding
    \/ ShouldCompress
    \/ SerializeWithNegotiation
    \/ ToJson
    \/ ToJsonGzipped

SpecFn == InitFn /\ [][NextFn]_vars

\* ======================================================================
\* Properties
\* ======================================================================
\* an attempt outcome the retry policy is meant to retry
RetryableOutcome(out) ==
    \/ out.kind = "status" /\ out.status >= 500
    \/ out.kind \in {"connect", "timeout"}

AllRetryable(h) == \A i \in 1..Len(h) : RetryableOutcome(h[i])

\* this step is the start of a get() call by p
GetStarts(p) ==
    /\ task[p].pc = "idle"
    /\ task'[p] # task[p]
    /\ task'[p].method = "GET"

\* this step is the start of a post() call by p
PostStarts(p) ==
    /\ task[p].pc = "idle"
    /\ task'[p] # task[p]
    /\ task'[p].method = "POST"

\* this step is the arrival of an attempt's outcome at p
Responds(p) ==
    /\ task[p].pc = "pending"
    /\ Len(task'[p].hist) = Len(task[p].hist) + 1

LastOutcome(t) == t.hist[Len(t.hist)]

\* the cache holds a non-expired entry for key k
ValidEntry(k) ==
    /\ k \in DOMAIN cache
    /\ now - cache[k].timestamp < cfg.cache_ttl_seconds

\* the first n backoff delays: 1, 2, 4, ...
Backoffs(n) == [i \in 1..n |-> 2 ^ (i - 1)]

\* C1: a get() inside the scope with use_cache and a non-expired entry for its
\* key returns the stored value, whatever that value is, and issues no request
\* and sleeps not at all.
C1_ValidEntryIsServed ==
    [][\A p \in Tasks :
          ( /\ GetStarts(p)
            /\ inScope
            /\ task'[p].use_cache
            /\ ValidEntry(task'[p].cache_key) )
          => ( /\ task'[p].pc = "idle"
               /\ task'[p].result = Returned(cache[task'[p].cache_key].value)
               /\ task'[p].net = 0
               /\ task'[p].sleeps = << >> )]_vars

\* C2: a call never issues more than max_retries requests, and issues exactly
\* max_retries when every attempt ended in a retryable failure.
C2_AttemptsBounded ==
    \A p \in Tasks :
        /\ task[p].net <= cfg.max_retries
        /\ ( /\ task[p].pc = "idle"
             /\ task[p].hist # << >>
             /\ AllRetryable(task[p].hist) )
           => task[p].net = cfg.max_retries

C2_Witness ==
    \E p \in Tasks :
        /\ task[p].pc = "idle"
        /\ task[p].method = "POST"
        /\ Len(task[p].hist) = 3
        /\ AllRetryable(task[p].hist)
        /\ task[p].net = 3

\* C3: the sleeps of a call are 1, 2, 4, ... seconds, one after each retryable
\* failure on an attempt that is not the last one and none anywhere else; a
\* call whose max_retries attempts all failed retryably slept max_retries - 1
\* times.
C3_BackoffSchedule ==
    \A p \in Tasks :
        LET t == task[p]
            slept == { i \in 1..Len(t.hist) :
                          RetryableOutcome(t.hist[i]) /\ i < cfg.max_retries }
        IN  /\ t.sleeps = Backoffs(Cardinality(slept))
            /\ t.pc = "sleeping" =>
                  /\ RetryableOutcome(LastOutcome(t))
                  /\ Len(t.hist) < cfg.max_retries
                  /\ t.wakeAt - now <= 2 ^ (Len(t.hist) - 1)
            /\ ( /\ t.pc = "idle" /\ AllRetryable(t.hist)
                 /\ Len(t.hist) = cfg.max_retries /\ cfg.max_retries >= 1 )
               => Len(t.sleeps) = cfg.max_retries - 1

C3_Witness ==
    \E p \in Tasks :
        /\ task[p].pc = "idle"
        /\ task[p].sleeps = << 1, 2 >>
        /\ Len(task[p].hist) = 3
        /\ AllRetryable(task[p].hist)

\* C4: a get() attempt that ends in an HTTP error status below 500 ends the
\* call at once with that error: no further request, no sleep, and no step of
\* a get() that does not return a response changes the cache.
C4_ClientErrorFailsAtOnce ==
    [][\A p \in Tasks :
          /\ ( /\ Responds(p)
               /\ task'[p].method = "GET"
               /\ LastOutcome(task'[p]).kind = "status"
               /\ LastOutcome(task'[p]).status < 500 )
             => ( /\ task'[p].pc = "idle"
                  /\ task'[p].result =
                        Raised(Error("status", LastOutcome(task'[p]).status,
                                     Len(task[p].hist)))
                  /\ task'[p].net = task[p].net
                  /\ task'[p].sleeps = task[p].sleeps
                  /\ cache' = cache )
          /\ ( /\ task'[p] # task[p]
               /\ task'[p].method = "GET"
               /\ task'[p].result.kind # "returned" )
             => cache' = cache]_vars

C4_Witness ==
    \E p \in Tasks :
        /\ task[p].pc = "idle"
        /\ task[p].method = "GET"
        /\ task[p].use_cache
        /\ task[p].hist = << Outcome("status", 404, None) >>
        /\ task[p].result.kind = "raised"
        /\ cfg.max_retries = 3
        /\ cache # EmptyCache

\* C5: when all max_retries >= 1 attempts of a call fail retryably, the call
\* raises the error of the last attempt, and raises nothing before that
\* attempt has failed.
C5_LastErrorSurfaces ==
    \A p \in Tasks :
        LET t == task[p]
            n == Len(t.hist)
        IN  ( t.hist # << >> /\ AllRetryable(t.hist) /\ cfg.max_retries >= 1 )
            => IF n = cfg.max_retries
               THEN /\ t.pc = "idle"
                    /\ t.result = Raised(Error(t.hist[n].kind, t.hist[n].status, n - 1))
               ELSE t.result = NoResult

C5_Witness ==
    \E p \in Tasks :
        /\ task[p].pc = "idle"
        /\ task[p].method = "GET"
        /\ task[p].hist = << Outcome("status", 500, None), Outcome("timeout", 0, None),
                             Outcome("connect", 0, None) >>
        /\ task[p].result = Raised(Error("connect", 0, 2))

\* C6: a get() with use_cache whose first j attempts fail retryably and whose
\* attempt j+1 succeeds returns that response's JSON after j+1 requests and
\* the j sleeps 1, 2, ...; at that moment the cache holds the value under the
\* call's key, stamped with the current time.
C6_SuccessAfterRetries ==
    [][\A p \in Tasks :
          ( /\ Responds(p)
            /\ task'[p].method = "GET"
            /\ task'[p].use_cache
            /\ LastOutcome(task'[p]).kind = "ok"
            /\ AllRetryable(task[p].hist) )
          => LET j == Len(task[p].hist)
                 v == LastOutcome(task'[p]).value
             IN  /\ task'[p].pc = "idle"
                 /\ task'[p].result = Returned(v)
                 /\ task'[p].net = j + 1
                 /\ task'[p].sleeps = Backoffs(j)
                 /\ task'[p].cache_key \in DOMAIN cache'
                 /\ cache'[task'[p].cache_key] = [value |-> v, timestamp |-> now']
                 /\ \A k \in DOMAIN cache' \ {task'[p].cache_key} :
                       k \in DOMAIN cache /\ cache'[k] = cache[k]
                 /\ DOMAIN cache \subseteq DOMAIN cache']_vars

C6_Witness ==
    \E p \in Tasks :
        /\ task[p].pc = "idle"
        /\ task[p].method = "GET"
        /\ task[p].use_cache
        /\ task[p].hist = << Outcome("status", 500, None), Outcome("status", 500, None),
                             Outcome("ok", 200, "d1") >>
        /\ task[p].sleeps = << 1, 2 >>
        /\ task[p].net = 3
        /\ task[p].cache_key \in DOMAIN cache
        /\ cache[task[p].cache_key] = [value |-> "d1", timestamp |-> now]
        /\ now >= 3

\* the outcomes h with every status >= 500 replaced by the failure `kind`
ReplaceServerErrors(h, kind) ==
    [i \in 1..Len(h) |->
        IF h[i].kind = "status" /\ h[i].status >= 500
        THEN Outcome(kind, 0, None) ELSE h[i]]

\* what a caller observes of a finished or running call, and the cache
Observed(r) ==
    << r.task.pc, r.task.net, r.task.sleeps, r.task.result.kind,
       r.task.result.value, r.cache >>

\* the call of p when its first request was in flight
LoopEntry(t) ==
    [IdleTask EXCEPT !.pc = "pending", !.net = 1, !.method = t.method,
                     !.url = t.url, !.cache_key = t.cache_key,
                     !.use_cache = t.use_cache, !.scoped = t.scoped]

\* C7: a connection error or a timeout is handled as a status >= 500 is: for
\* the outcomes a call has met, replacing the 5xx outcomes by connection errors
\* or by timeouts gives the same number of requests, the same sleeps, the same
\* cache and the same success or failure.
C7_ConnectionErrorsLikeServerErrors ==
    \A p \in Tasks :
        ( task[p].hist # << >> /\ client = "open" )
        => LET h == task[p].hist
               entry == LoopEntry(task[p])
               met == RunLoop(entry, cache, h, now, client, cfg.max_retries)
               asConnect == RunLoop(entry, cache, ReplaceServerErrors(h, "connect"),
                                    now, client, cfg.max_retries)
               asTimeout == RunLoop(entry, cache, ReplaceServerErrors(h, "timeout"),
                                    now, client, cfg.max_retries)
               seen == Observed(met)
           IN  /\ Observed(asConnect) = seen
               /\ Observed(asTimeout) = seen
               /\ task[p].pc = "idle" =>
                     /\ met.task.net = task[p].net
                     /\ met.task.sleeps = task[p].sleeps
                     /\ met.task.result = task[p].result

C7_Witness ==
    \E p \in Tasks :
        /\ client = "open"
        /\ task[p].pc = "idle"
        /\ task[p].method = "GET"
        /\ task[p].use_cache
        /\ task[p].hist = << Outcome("status", 500, None), Outcome("status", 500, None),
                             Outcome("ok", 200, "d1") >>
        /\ task[p].sleeps = << 1, 2 >>

\* C8: no step of a post() changes the cache; a post() inside the scope with
\* max_retries >= 1 issues a request whatever the cache holds for its URL; and
\* a finished post() made as many requests and slept the same sleeps as a
\* get() that misses the cache does on the same attempt outcomes.
C8_PostBypassesCache ==
    [][\A p \in Tasks :
          ( task'[p] # task[p] /\ task'[p].method = "POST" )
          => /\ cache' = cache
             /\ ( PostStarts(p) /\ inScope /\ cfg.max_retries >= 1 )
                => ( task'[p].pc = "pending" /\ task'[p].net = 1 )
             /\ ( task'[p].pc = "idle" /\ task'[p].hist # << >> )
                => LET miss == GetCall(task'[p].url, Params(FALSE, << >>), TRUE,
                                       "open", EmptyCache, now, cfg, TRUE)
                       g == RunLoop(miss, EmptyCache, task'[p].hist, now, "open",
                                    cfg.max_retries).task
                   IN  /\ g.pc = "idle"
                       /\ g.net = task'[p].net
                       /\ g.sleeps = task'[p].sleeps
                       /\ g.result.kind = task'[p].result.kind]_vars

C8_Witness ==
    \E p \in Tasks :
        /\ task[p].pc = "pending"
        /\ task[p].method = "POST"
        /\ task[p].scoped
        /\ task[p].net = 2
        /\ task[p].sleeps = << 1 >>
        /\ ValidEntry(get_cache_key(task[p].url, Params(FALSE, << >>)))

\* C9: a get() or post() made outside an active scope, before the scope was
\* entered or after it was left, raises the usage error and issues no request.
C9_OutsideScopeIsUsageError ==
    \A p \in Tasks :
        ( task[p].method # None /\ ~task[p].scoped )
        => ( /\ task[p].pc = "idle"
             /\ task[p].result = Raised(Error("NotInitialized", 0, 0))
             /\ task[p].net = 0 )

\* C10: outside the scope the connection is never open: __aexit__ closed it,
\* whether the calls in the body returned or raised.
C10_ClosedAfterExit ==
    ~inScope => client # "open"

C10_Witness ==
    /\ ~inScope
    /\ client = "closed"
    /\ \E p \in Tasks :
          /\ task[p].scoped
          /\ task[p].result.kind = "raised"
          /\ task[p].net >= 1

\* this step is a clear_cache() that found entries
Clears ==
    /\ cache' # cache
    /\ UNCHANGED <<cfg, client, inScope, now, task>>

\* the get() call started on the state after this step, as far as its first await
GetAfter(url, params, use_cache) ==
    GetCall(url, params, use_cache, client', cache', now', cfg', inScope')

\* C11: a get() inside the scope with use_cache is answered from the cache
\* exactly when the entry of its key is younger than cache_ttl_seconds; with no
\* such entry (expired at age = TTL, or never stored) it issues a request.  With
\* cache_ttl_seconds = 0 nothing is answered from the cache.
C11_ServedIffYoungerThanTtl ==
    [][\A p \in Tasks :
          ( GetStarts(p) /\ inScope /\ task'[p].use_cache )
          => LET k == task'[p].cache_key
                 served == /\ task'[p].pc = "idle"
                           /\ task'[p].net = 0
                           /\ k \in DOMAIN cache
                           /\ task'[p].result = Returned(cache[k].value)
             IN  /\ served <=> ( k \in DOMAIN cache
                                 /\ now - cache[k].timestamp < cfg.cache_ttl_seconds )
                 /\ cfg.cache_ttl_seconds = 0 => ~served
                 /\ ( ~served /\ cfg.max_retries >= 1 )
                    => ( task'[p].pc = "pending" /\ task'[p].net = 1 )]_vars

\* C12: clear_cache() leaves no entry, whatever the cache held, valid or
\* expired: the reported size is 0, and a get() with use_cache made next inside
\* the scope, for any url and params, issues a request (max_retries >= 1).
C12_ClearCacheEmpties ==
    [][Clears
       => /\ cache_size(cache') = 0
          /\ ( inScope /\ cfg.max_retries >= 1 )
             => \A url \in Urls, params \in ParamChoices :
                   LET t == GetAfter(url, params, TRUE)
                   IN  t.pc = "pending" /\ t.net = 1]_vars

\* a call stored its response, and the cache is empty again, inside the scope
C12_Witness ==
    /\ cache = EmptyCache
    /\ inScope
    /\ cfg.max_retries >= 1
    /\ \E p \in Tasks :
          /\ task[p].pc = "idle"
          /\ task[p].use_cache
          /\ task[p].scoped
          /\ task[p].result = Returned("d1")
          /\ task[p].net >= 1

\* the call of fn has returned
Called(fn) == call.fn = fn /\ call.done

\* the (name, value) pairs of a params argument
PairsOf(params) == { params.items[i] : i \in 1..Len(params.items) }

\* C13: the key of get(url, params) depends on the url and on the set of
\* (name, value) pairs only: the same pairs in any order give the same key, and
\* params absent and params empty give the same key.
C13_KeyIgnoresOrder ==
    Called("get_cache_key")
    => \A q \in KeyParamChoices :
          PairsOf(q) = PairsOf(call.args.params)
          => get_cache_key(call.args.url, q) = call.result

C13_Witness ==
    /\ Called("get_cache_key")
    /\ call.args.params = Params(TRUE, << <<2, "y">>, <<3, "w">>, <<1, "x">> >>)
    /\ call.result
       = get_cache_key(call.args.url, Params(TRUE, << <<3, "w">>, <<1, "x">>, <<2, "y">> >>))

\* the last call of p went to the network for key k and returned its response
Fetched(p, k) ==
    /\ task[p].pc = "idle"
    /\ task[p].use_cache
    /\ task[p].cache_key = k
    /\ task[p].net >= 1
    /\ task[p].result.kind = "returned"

\* this step is the arrival of a successful response at a get() of p that
\* uses the cache
Stores(p) ==
    /\ Responds(p)
    /\ task[p].use_cache
    /\ LastOutcome(task'[p]).kind = "ok"

\* C14: two get() calls for one key on one client can both miss and both issue
\* a request; each successful response replaces the whole entry of the key by
\* its own value and the current time and changes no other entry, and nothing
\* else writes, so that after both succeeded the key has one entry, holding
\* the response of the call that wrote last.
C14_LastWriterWins ==
    /\ [](\A k \in DOMAIN cache :
             ( \A p \in ConcTasks : Fetched(p, k) )
             => \E p \in ConcTasks : cache[k].value = task[p].result.value)
    /\ [][/\ \A p \in ConcTasks :
                Stores(p)
                => LET k == task[p].cache_key
                       v == LastOutcome(task'[p]).value
                   IN  /\ task'[p].result = Returned(v)
                       /\ DOMAIN cache' = DOMAIN cache \cup {k}
                       /\ cache'[k] = [value |-> v, timestamp |-> now]
                       /\ \A x \in DOMAIN cache \ {k} : cache'[x] = cache[x]
          /\ cache' # cache => \E p \in ConcTasks : Stores(p)]_vars

\* both calls ran at time 0 for one key, both went to the network, and the
\* entry holds the body the second writer received
C14_Witness ==
    /\ now = 0
    /\ LET k == task["t1"].cache_key
       IN  /\ Fetched("t1", k) /\ Fetched("t2", k)
           /\ task["t1"].net = 1 /\ task["t2"].net = 1
           /\ task["t1"].result = Returned("d1")
           /\ task["t2"].result = Returned("d2")
           /\ DOMAIN cache = {k}
           /\ cache[k] = [value |-> "d2", timestamp |-> 0]

\* the number a q text stands for, where float() reads it
Numeric(q) == q \in DOMAIN FloatValue

\* C15: the quality parse_media_type and parse_encoding_preference give lies in
\* [0.0, 1.0]: a numeric q above 1 gives 1.0, one below 0 gives 0.0, one in
\* between is kept, a q that is no number gives 1.0, and so does no q.
C15_QualityInUnitRange ==
    ( Called("parse_media_type") \/ Called("parse_encoding_preference") )
    => LET q == call.args.shape.q
           quality == call.result.quality
       IN  /\ 0 <= quality /\ quality <= One
           /\ q = "" => quality = One
           /\ ( q # "" /\ ~Numeric(q) ) => quality = One
           /\ ( Numeric(q) /\ FloatValue[q] > One ) => quality = One
           /\ ( Numeric(q) /\ FloatValue[q] < 0 ) => quality = 0
           /\ ( Numeric(q) /\ 0 <= FloatValue[q] /\ FloatValue[q] <= One )
              => quality = FloatValue[q]

C15_Witness ==
    /\ Called("parse_media_type")
    /\ call.args.shape.q = "1.5"
    /\ call.args.text = << "text", "/", "html", ";", " ", "q", "=", "1.5" >>
    /\ call.result.quality = One

\* the bijections of 1..n
Bijections(n) ==
    { f \in [1..n -> 1..n] : \A i, j \in 1..n : f[i] = f[j] => i = j }

\* the comma-separated segments of a header, counted by its commas
SegmentCount(header) == Cardinality({ i \in 1..Len(header) : header[i] = "," }) + 1

\* media type a ranks strictly before b
RanksBefore(a, b) ==
    \/ a.quality > b.quality
    \/ /\ a.quality = b.quality
       /\ a.type # Star /\ b.type = Star
    \/ /\ a.quality = b.quality
       /\ (a.type = Star) = (b.type = Star)
       /\ a.subtype # Star /\ b.subtype = Star

\* C16: parse_accept_header gives the parsed segments ordered by (quality, type
\* is no wildcard, subtype is no wildcard), descending; segments equal in all
\* three keep their header order; so a */* whose quality is not above any other
\* entry's has only its like behind it, wherever it stood in the header.
C16_AcceptOrder ==
    Called("parse_accept_header")
    => LET r == call.result
           n == Len(call.args.shapes)
           parsed == [i \in 1..n |-> parse_media_type(Render(call.args.shapes[i]))]
       IN  /\ Len(r) = n
           /\ \E f \in Bijections(n) :
                 /\ \A i \in 1..n : r[i] = parsed[f[i]]
                 /\ \A i, j \in 1..n :
                       i < j => /\ ~RanksBefore(r[j], r[i])
                                /\ ~RanksBefore(r[i], r[j]) => f[i] < f[j]
           /\ \A i \in 1..n :
                 ( /\ r[i].type = Star /\ r[i].subtype = Star
                   /\ \A j \in 1..n : r[i].quality <= r[j].quality )
                 => \A j \in (i + 1)..n :
                       /\ r[j].type = Star /\ r[j].subtype = Star
                       /\ r[j].quality = r[i].quality

C16_Witness ==
    /\ Called("parse_accept_header")
    /\ call.args.header
       = << "*", "/", "*", ";", " ", "q", "=", "0.8", ",", " ",
            "text", "/", "*", ";", "q", "=", "0.8", ",", " ",
            "text", "/", "html", ";", " ", "q", "=", "0.8" >>
    /\ call.result
       = << MediaType(<< "text" >>, << "html" >>, 8, << >>),
            MediaType(<< "text" >>, Star, 8, << >>),
            MediaType(Star, Star, 8, << >>) >>

\* C17: parse_accept_encoding_header gives the parsed segments ordered by
\* quality alone, descending, equal qualities in header order; it gives, as
\* parse_accept_header does, one entry per comma-separated segment of a
\* non-empty header and none for the empty header.
C17_AcceptEncodingOrder ==
    /\ Called("parse_accept_encoding_header")
       => LET r == call.result
              n == Len(call.args.shapes)
              parsed == [i \in 1..n |->
                           parse_encoding_preference(Render(call.args.shapes[i]))]
          IN  /\ Len(r) = n
              /\ \E f \in Bijections(n) :
                    /\ \A i \in 1..n : r[i] = parsed[f[i]]
                    /\ \A i, j \in 1..n :
                          i < j => /\ r[i].quality >= r[j].quality
                                   /\ r[i].quality = r[j].quality => f[i] < f[j]
    /\ ( Called("parse_accept_encoding_header") \/ Called("parse_accept_header") )
       => Len(call.result)
          = IF call.args.header = << >> THEN 0 ELSE SegmentCount(call.args.header)

C17_Witness ==
    /\ Called("parse_accept_encoding_header")
    /\ call.args.header
       = << "gzip", ";", " ", "q", "=", "0.8", ",", " ", "deflate", ",", " ",
            "br", ";", " ", "q", "=", "0.5" >>
    /\ call.result
       = << EncodingPreference(<< "deflate" >>, One),
            EncodingPreference(<< "gzip" >>, 8),
            EncodingPreference(<< "br" >>, 5) >>

\* the elements of a list
Elements(list) == { list[i] : i \in 1..Len(list) }

\* the type part of a content type "type/subtype"
TypeOf(content_type) == SubSeq(content_type, 1, IndexOf(content_type, "/") - 1)

\* what a preference of an Accept header is said to match
AcceptsType(mt, content_type) ==
    \/ mt.type = Star /\ mt.subtype = Star
    \/ mt.subtype = Star /\ ~(mt.type = Star) /\ TypeOf(content_type) = mt.type
    \/ mt.subtype # Star /\ content_type = mt.type \o << "/" >> \o mt.subtype

\* C18: select_content_type gives, for an empty header, the first available
\* type or nothing when there is none; otherwise the first available type, in
\* the caller's order, that the highest-ranked matching preference matches, and
\* nothing when no preference matches; the result is an available type or
\* nothing.
C18_SelectContentType ==
    Called("select_content_type")
    => LET available == call.args.available
           accepted == parse_accept_header(call.args.header)
           m == Len(available)
           matched(i) == { j \in 1..m : AcceptsType(accepted[i], available[j]) }
           r == call.result
       IN  /\ r = Absent \/ ( Len(r) = 1 /\ r[1] \in Elements(available) )
           /\ call.args.header = << >>
              => r = IF m = 0 THEN Absent ELSE Some(available[1])
           /\ call.args.header # << >>
              => /\ r = Absent <=> \A i \in 1..Len(accepted) : matched(i) = {}
                 /\ r # Absent
                    => \E i \in 1..Len(accepted) :
                          /\ matched(i) # {}
                          /\ \A h \in 1..(i - 1) : matched(h) = {}
                          /\ \E j \in matched(i) :
                                /\ r = Some(available[j])
                                /\ \A h \in 1..(j - 1) : h \notin matched(i)

C18_Witness ==
    /\ Called("select_content_type")
    /\ call.args.header
       = << "*", "/", "*", ";", " ", "q", "=", "0.8", ",", " ", "text", "/", "*" >>
    /\ call.args.available = << ApplicationJson, TextPlain >>
    /\ call.result = Some(TextPlain)

\* C19: select_encoding gives "identity" for an empty header, available or not;
\* otherwise the first available encoding, in the caller's order, that the
\* highest-quality matching preference matches (by its exact name, or "*");
\* when no preference matches, "identity" if it is available and nothing
\* otherwise.
C19_SelectEncoding ==
    Called("select_encoding")
    => LET available == call.args.available
           preferences == parse_accept_encoding_header(call.args.header)
           m == Len(available)
           matched(i) == { j \in 1..m : preferences[i].encoding = Star
                                        \/ preferences[i].encoding = available[j] }
           none == \A i \in 1..Len(preferences) : matched(i) = {}
           r == call.result
       IN  /\ call.args.header = << >> => r = Some(Identity)
           /\ ( call.args.header # << >> /\ none )
              => r = IF Identity \in Elements(available) THEN Some(Identity) ELSE Absent
           /\ ( call.args.header # << >> /\ ~none )
              => \E i \in 1..Len(preferences) :
                    /\ matched(i) # {}
                    /\ \A h \in 1..(i - 1) : matched(h) = {}
                    /\ \E j \in matched(i) :
                          /\ r = Some(available[j])
                          /\ \A h \in 1..(j - 1) : h \notin matched(i)

C19_Witness ==
    /\ Called("select_encoding")
    /\ call.args.header = << "br" >>
    /\ call.args.available = << << "gzip" >>, Identity >>
    /\ call.result = Some(Identity)

\* C20: should_compress is false when content_size < min_size_bytes, false for
\* the empty header, and otherwise true exactly when a segment of the header
\* names gzip, deflate or br and parses to a quality above 0.
C20_ShouldCompress ==
    Called("should_compress")
    => LET shapes == call.args.shapes
           named == \E i \in 1..Len(shapes) :
                       /\ shapes[i].main \in { << "gzip" >>, << "deflate" >>, << "br" >> }
                       /\ parse_encoding_preference(Render(shapes[i])).quality > 0
       IN  call.result
           = ( /\ call.args.content_size >= call.args.min_size_bytes
               /\ call.args.header # << >>
               /\ named )

C20_Witness ==
    /\ Called("should_compress")
    /\ call.args.content_size = call.args.min_size_bytes
    /\ call.args.header = << "gzip", ";", "q", "=", "0", ",", " ", "*" >>
    /\ call.result = FALSE

\* serialize_with_negotiation was called and returned
Serialized == Called("serialize_with_negotiation") /\ ~call.result.raised

\* the text to_json() gives for the object and the JSON options of the call
JsonText == to_json(call.args.obj, FALSE, call.args.kwargs).value

\* the character of a code point below 128
Chr(b) == CHOOSE ch \in DOMAIN Ord : Ord[ch] = b

\* bytes.decode(charset)
RECURSIVE DecodeAll(_, _)
DecodeAll(bytes, charset) ==
    IF bytes = << >> THEN << >>
    ELSE LET b == Head(bytes)
         IN  IF b < 128 THEN << Chr(b) >> \o DecodeAll(Tail(bytes), charset)
             ELSE IF charset = "iso-8859-1"
             THEN << (IF b = 233 THEN EAcute ELSE IF b = 195 THEN "A~" ELSE "(c)") >>
                  \o DecodeAll(Tail(bytes), charset)
             ELSE IF charset = "utf-8" /\ Len(bytes) >= 2 /\ b = 195 /\ bytes[2] = 169
             THEN << EAcute >> \o DecodeAll(Tail(Tail(bytes)), charset)
             ELSE << "undecodable" >>

\* count times b
RECURSIVE Repeat(_, _)
Repeat(b, count) == IF count = 0 THEN << >> ELSE << b >> \o Repeat(b, count - 1)

RECURSIVE Expand(_)
Expand(runs) ==
    IF Len(runs) < 2 THEN << >>
    ELSE Repeat(runs[2], runs[1]) \o Expand(Tail(Tail(runs)))

\* gzip.decompress(data) of a well-formed member
gzip_decompress(data) == Expand(SubSeq(data, 3, Len(data) - 1))

WellFormedGzip(data) ==
    /\ Len(data) >= 3
    /\ SubSeq(data, 1, 2) = GzipMagic
    /\ Len(gzip_decompress(data)) = data[Len(data)]

\* int(text) of a decimal numeral
RECURSIVE Int10(_)
Int10(text) ==
    IF text = << >> THEN 0
    ELSE LET last == text[Len(text)]
             digit == CHOOSE n \in 0..9 : Digits[n + 1] = last
         IN  10 * Int10(SubSeq(text, 1, Len(text) - 1)) + digit

\* C21: serialize_with_negotiation returns gzip bytes with Content-Encoding:
\* gzip exactly when the header is given and not empty, should_compress(header,
\* min_compress_size, byte length of the JSON) is true and select_encoding(header,
\* [gzip, identity]) is gzip; otherwise it returns the JSON text with no
\* Content-Encoding: so without a header, below the threshold, when only deflate
\* and br are accepted, and when identity ranks ahead of gzip. Content-Type is
\* "application/json; charset=<charset>" in both cases.
C21_GzipIffNegotiated ==
    Serialized
    => LET a == call.args
           r == call.result.value
           size == Len(encode(JsonText, a.charset).value)
           given == a.accept_encoding # Absent /\ a.accept_encoding[1] # << >>
           gz == /\ given
                 /\ should_compress(a.accept_encoding[1], a.min_compress_size, size)
                 /\ select_encoding(a.accept_encoding[1], << Gzip, Identity >>) = Some(Gzip)
           textual == /\ ~r.is_bytes
                      /\ r.content = JsonText
                      /\ "Content-Encoding" \notin DOMAIN r.headers
           ranked == parse_accept_encoding_header(a.accept_encoding[1])
       IN  /\ r.headers["Content-Type"]
              = << "application", "/", "json", ";", " ", "charset", "=", a.charset >>
           /\ gz => /\ r.is_bytes
                    /\ WellFormedGzip(r.content)
                    /\ "Content-Encoding" \in DOMAIN r.headers
                    /\ r.headers["Content-Encoding"] = << "gzip" >>
           /\ ~gz => textual
           /\ ~given => textual
           /\ size < a.min_compress_size => textual
           /\ ( /\ given
                /\ \A i \in 1..Len(a.shapes) :
                      a.shapes[i].main \in { << "deflate" >>, << "br" >> } )
              => textual
           /\ ( /\ given
                /\ \E i \in 1..Len(ranked) :
                      /\ ranked[i].encoding = << "identity" >>
                      /\ \A j \in 1..i : ranked[j].encoding \notin { << "gzip" >>, << "*" >> } )
              => textual

\* the JSON is exactly as long as the threshold and gzip is accepted
C21_Witness ==
    /\ Serialized
    /\ call.args.accept_encoding = Some(<< "gzip" >>)
    /\ call.args.min_compress_size = 10
    /\ Len(JsonText) = 10
    /\ call.result.value.is_bytes
    /\ call.result.value.headers["Content-Encoding"] = Gzip

\* C22: the payload carries the JSON text to_json() gives with the same JSON
\* options: without Content-Encoding the payload is that text, with
\* Content-Encoding: gzip decompressing the payload and decoding it with the
\* charset gives exactly that text.
C22_PayloadIsJsonText ==
    Serialized
    => LET r == call.result.value
       IN  IF "Content-Encoding" \notin DOMAIN r.headers
           THEN r.content = JsonText
           ELSE /\ r.headers["Content-Encoding"] = Gzip
                /\ WellFormedGzip(r.content)
                /\ DecodeAll(gzip_decompress(r.content), call.args.charset) = JsonText

\* a text with a character outside ASCII went through iso-8859-1 and gzip
C22_Witness ==
    /\ Serialized
    /\ call.args.charset = "iso-8859-1"
    /\ \E i \in 1..Len(JsonText) : JsonText[i] = EAcute
    /\ "Content-Encoding" \in DOMAIN call.result.value.headers
    /\ DecodeAll(gzip_decompress(call.result.value.content), "iso-8859-1") = JsonText

\* C23: Content-Length is always there and is the length in bytes of the
\* returned payload: of the compressed bytes when gzip was applied, of the JSON
\* text encoded with the charset of the call otherwise.
C23_ContentLength ==
    Serialized
    => LET r == call.result.value
           length == IF r.is_bytes THEN Len(r.content)
                     ELSE Len(EncodeAll(r.content, call.args.charset))
       IN  /\ "Content-Length" \in DOMAIN r.headers
           /\ r.headers["Content-Length"] # << >>
           /\ \A i \in 1..Len(r.headers["Content-Length"]) :
                 \E n \in 0..9 : r.headers["Content-Length"][i] = Digits[n + 1]
           /\ Int10(r.headers["Content-Length"]) = length

\* a text of 10 characters that takes 11 bytes in utf-8 is returned as text
C23_Witness ==
    /\ Serialized
    /\ call.args.charset = "utf-8"
    /\ ~call.result.value.is_bytes
    /\ Len(call.result.value.content) = 10
    /\ call.result.value.headers["Content-Length"] = << "1", "1" >>

\* C24: on an object whose class has no to_dict, serialize_with_negotiation,
\* to_json and to_json_gzipped raise NotImplementedError, whatever the header,
\* the threshold and the other arguments, and give no payload and no headers.
C24_NoToDictRaises ==
    ( /\ Called("serialize_with_negotiation") \/ Called("to_json")
         \/ Called("to_json_gzipped")
      /\ ~call.args.obj.has_to_dict )
    => /\ call.result.raised
       /\ call.result.error = "NotImplementedError"
       /\ "value" \notin DOMAIN call.result

C24_Witness ==
    /\ Called("serialize_with_negotiation")
    /\ ~call.args.obj.has_to_dict
    /\ call.args.accept_encoding = Some(<< "gzip" >>)
    /\ call.args.min_compress_size = 10
    /\ call.result.raised

\* C28: serialize_with_negotiation returns a gzip payload only when a segment
\* of the header names gzip or * with a quality above 0; a header that gives
\* gzip the quality 0 beside br never yields Content-Encoding: gzip.
C28_GzipOnlyWhenAccepted ==
    ( /\ Serialized
      /\ "Content-Encoding" \in DOMAIN call.result.value.headers )
    => \E i \in 1..Len(call.args.shapes) :
          /\ call.args.shapes[i].main \in { << "gzip" >>, << "*" >> }
          /\ parse_encoding_preference(Render(call.args.shapes[i])).quality > 0

\* C25: an entry of the cache is removed by clear_cache() only and stops being
\* servable by the passing of time only: nothing evicts. Over any run of get()
\* and post() calls every key once stored stays, and the number of entries
\* never goes down, until clear_cache() is called.
C25_OnlyClearRemoves ==
    [][/\ (DOMAIN cache \ DOMAIN cache' # {}) => Clears
       /\ ~Clears => /\ DOMAIN cache \subseteq DOMAIN cache'
                     /\ cache_size(cache') >= cache_size(cache)
       /\ \A k \in DOMAIN cache \cap DOMAIN cache' :
             ( /\ now - cache[k].timestamp < cfg.cache_ttl_seconds
               /\ ~(now' - cache'[k].timestamp < cfg'.cache_ttl_seconds) )
             => /\ now' > now
                /\ cache'[k] = cache[k]
                /\ now' - cache[k].timestamp >= cfg.cache_ttl_seconds]_vars

\* two entries, one of them expired, are still there after a later post()
C25_Witness ==
    /\ cache_size(cache) >= 2
    /\ cfg.cache_ttl_seconds > 0
    /\ \E k \in DOMAIN cache : ~ValidEntry(k)
    /\ \E p \in Tasks : /\ task[p].pc = "idle"
                        /\ task[p].method = "POST"
                        /\ task[p].result.kind = "returned"

\* p's call ended in the generic RuntimeError
GenericFailure(t) == t.pc = "idle" /\ t.result = Raised(Error("AllRetriesFailed", 0, 0))

\* C26 as first stated: the generic failure is never raised when max_retries >= 1,
\* and is raised exactly when max_retries <= 0 and the call is not served from
\* the cache, and then without a request.
C26_GenericIffNoAttempts ==
    [][\A p \in Tasks :
          GetStarts(p) \/ PostStarts(p)
          => LET served == /\ task'[p].method = "GET"
                           /\ task'[p].use_cache
                           /\ task'[p].result.kind = "returned"
             IN  GenericFailure(task'[p]) <=> (cfg.max_retries <= 0 /\ ~served)]_vars

\* C26: the generic failure is never raised when max_retries >= 1: a call that
\* leaves the loop without success has captured an error and raises that one.
\* It is raised exactly when max_retries <= 0, the client was entered (the call
\* passes the "Client not initialized" test) and the call is not served from
\* the cache, and then no request is issued.
C26_GenericIffNoAttemptsEntered ==
    /\ [](\A p \in Tasks :
             GenericFailure(task[p])
             => /\ cfg.max_retries <= 0
                /\ task[p].net = 0
                /\ task[p].hist = << >>)
    /\ [](\A p \in Tasks :
             ( /\ task[p].pc = "idle"
               /\ task[p].result.kind = "raised"
               /\ task[p].hist # << >> )
             => /\ task[p].result.error # NoError
                /\ task[p].result.error.kind # "AllRetriesFailed"
                /\ task[p].result.error.kind = LastOutcome(task[p]).kind)
    /\ [][\A p \in Tasks :
             GetStarts(p) \/ PostStarts(p)
             => LET served == /\ task'[p].method = "GET"
                              /\ task'[p].use_cache
                              /\ get_cached(cache, task'[p].cache_key, now,
                                            cfg.cache_ttl_seconds) # None
                IN  GenericFailure(task'[p])
                    <=> (cfg.max_retries <= 0 /\ client # None /\ ~served)]_vars

\* a post() inside the scope of a client with max_retries = 0 raised the
\* generic error without a request
C26_Witness ==
    \E p \in Tasks :
       /\ GenericFailure(task[p])
       /\ task[p].method = "POST"
       /\ inScope
       /\ cfg.max_retries = 0
       /\ task[p].net = 0

\* C27: the cache changes only by a successful get() with use_cache, which
\* sets the entry of its own key and no other, and by clear_cache(). A hit
\* leaves the value and the time of the entry as they were; a get() with
\* use_cache=False neither reads nor writes the cache, even when it succeeds;
\* a get() that ends in a failure (4xx, retries used up, a body that does not
\* parse, any other exception) leaves the whole cache as it was.
C27_CacheFrame ==
    [][/\ cache' # cache
          => \/ Clears /\ cache' = EmptyCache
             \/ \E p \in Tasks :
                   /\ Stores(p)
                   /\ task[p].method = "GET"
                   /\ task'[p].result.kind = "returned"
                   /\ cache' = [k \in DOMAIN cache \cup {task[p].cache_key} |->
                                  IF k = task[p].cache_key
                                  THEN [value |-> task'[p].result.value,
                                        timestamp |-> now]
                                  ELSE cache[k]]
       /\ \A p \in Tasks :
             /\ GetStarts(p) => cache' = cache
             /\ (GetStarts(p) /\ ~task'[p].use_cache)
                => /\ task'[p].result.kind # "returned"
                   /\ \E params \in ParamChoices :
                         task'[p] = GetCall(task'[p].url, params, FALSE, client,
                                            EmptyCache, now, cfg, inScope)
             /\ (Responds(p) /\ ~task[p].use_cache) => cache' = cache
             /\ ( /\ task'[p] # task[p]
                  /\ task'[p].method = "GET"
                  /\ task'[p].pc = "idle"
                  /\ task'[p].result.kind = "raised" )
                => cache' = cache]_vars

\* a get() with use_cache=False succeeded beside a valid entry for the same
\* url and left it as it was
C27_Witness ==
    \E p \in Tasks :
       /\ task[p].pc = "idle"
       /\ task[p].method = "GET"
       /\ ~task[p].use_cache
       /\ task[p].net >= 1
       /\ task[p].result = Returned("d1")
       /\ \E k \in DOMAIN cache : ValidEntry(k) /\ cache[k].value = None

\* C30: base_url, cache_ttl_seconds, max_retries and timeout_seconds are after
\* any sequence of scope entry, get(), post(), clear_cache() and scope exit
\* what they were at construction.
C30_ConfigUnchanged ==
    [][cfg' = cfg]_vars

\* the scope was entered and left, a get() stored its response and
\* clear_cache() emptied the cache
C30_Witness ==
    /\ client = "closed"
    /\ ~inScope
    /\ cache = EmptyCache
    /\ cfg.cache_ttl_seconds = MaxTtl
    /\ cfg.max_retries = MaxMaxRetries
    /\ \E p \in Tasks : /\ task[p].pc = "idle"
                        /\ task[p].method = "GET"
                        /\ task[p].use_cache
                        /\ task[p].net >= 1
                        /\ task[p].result.kind = "returned"

\* C29: every get() and post() finishes, by returning or by raising, whatever
\* the outcomes of its attempts, given that max_retries is finite and that
\* every request and every backoff sleep finishes. The loop never goes back to
\* a request in flight after a success, a 4xx status or the last attempt: a
\* request is in flight only as attempt 0 of a new call or, after a sleep, as
\* the next attempt below max_retries.
C29_CallsFinish ==
    /\ \A p \in Tasks : (task[p].pc # "idle") ~> (task[p].pc = "idle")
    /\ [][\A p \in Tasks :
             /\ Responds(p)
                => LET out == LastOutcome(task'[p])
                   IN  /\ task'[p].pc \in {"idle", "sleeping"}
                       /\ task'[p].pc = "sleeping"
                          => /\ RetryableOutcome(out)
                             /\ task[p].attempt + 1 < cfg.max_retries
                       /\ ( \/ out.kind = "ok"
                            \/ out.kind = "status" /\ out.status < 500
                            \/ task[p].attempt + 1 >= cfg.max_retries )
                          => task'[p].pc = "idle"
             /\ (task'[p].pc = "pending" /\ task'[p] # task[p])
                => /\ task'[p].attempt < cfg.max_retries
                   /\ \/ task[p].pc = "idle" /\ task'[p].attempt = 0
                      \/ /\ task[p].pc = "sleeping"
                         /\ task'[p].attempt = task[p].attempt + 1
                         /\ task'[p].method = task[p].method]_vars

\* a get() used up all its attempts, slept between them and raised
C29_Witness ==
    \E p \in Tasks :
       /\ task[p].pc = "idle"
       /\ task[p].method = "GET"
       /\ cfg.max_retries = MaxMaxRetries
       /\ Len(task[p].hist) = MaxMaxRetries
       /\ Len(task[p].sleeps) = MaxMaxRetries - 1
       /\ task[p].result.kind = "raised"

====
